---- MODULE Spec2Model ----
(***************************************************************************)
(* A model of scripts/create_networks.py: the batch pipeline that reads    *)
(* one JSON document per company, flattens them to one row per officer,    *)
(* builds the officer <-> company membership index, projects it to the     *)
(* officer graph and the company graph, keeps the largest connected        *)
(* component of each and writes edge and attribute tables.                 *)
(*                                                                         *)
(* Python values are encoded as follows.                                   *)
(*   - A key string (CorpId, FullNameNormalized, IdNumber) is a positive   *)
(*     integer whose order is the order of the strings; None is 0.         *)
(*   - A display string (CompanyName, AltName, FullName) is a tuple of     *)
(*     one-character strings; '' is << >>; None is NoneStr.                *)
(*   - An officer key is the tuple <<FullNameNormalized, IdNumber>>.       *)
(* The columns the script reads from the JSON but never uses afterwards    *)
(* (CorpOfficerId, Nationality, RegistrationNumber, HoldingCompanyName,    *)
(* HoldingCompanyRegNumber, RegistrationDate) are left out of the rows.    *)
(***************************************************************************)
EXTENDS Integers, Sequences, FiniteSets, TLC

\* ------------------------------------------------------------------------
\* Bounds of the input directories
\* ------------------------------------------------------------------------

\* Membership directories: number of rows (officer-at-company entries).
MaxRecords == 6

\* Display-name directories: number of files (one officer entry each).
MaxNameFiles == 3

\* Defective directories: number of files (at most one officer entry each).
MaxDefectFiles == 3

\* ------------------------------------------------------------------------
\* Python values
\* ------------------------------------------------------------------------

\* None as a key string.
None == 0

\* None as a display string (no display string is spelt with this letter).
NoneStr == <<"None">>

\* None inside a list of officer keys (a key is a 2-tuple, so << >> is none).
NoneKey == << >>

Digit == <<"1", "2", "3", "4", "5", "6", "7", "8", "9">>

Range(s) == {s[i] : i \in DOMAIN s}

Min(S) == CHOOSE x \in S : \A y \in S : x <= y

Max(S) == CHOOSE x \in S : \A y \in S : x >= y

RECURSIVE SortedSeq(_)
\* The elements of a set of integers, ascending.
SortedSeq(S) == IF S = {} THEN << >>
                ELSE LET m == Min(S) IN <<m>> \o SortedSeq(S \ {m})

SeqsUpTo(S, n) == UNION {[1..k -> S] : k \in 0..n}

\* All orders in which the elements of S can be enumerated.
Perms(S) == {p \in [1..Cardinality(S) -> S] : Range(p) = S}

\* ------------------------------------------------------------------------
\* Input documents
\* ------------------------------------------------------------------------

Officer(norm, id, full) ==
  [FullNameNormalized |-> norm, IdNumber |-> id, FullName |-> full]

\* A document with a Corp object and an Officers array.
Doc(cid, cname, alt, offs) ==
  [hasCorp |-> TRUE, CorpId |-> cid, CompanyName |-> cname, AltName |-> alt,
   hasOfficers |-> TRUE, Officers |-> offs]

\* The same document without its Corp key / without its Officers key.
WithoutCorp(d) ==
  [d EXCEPT !.hasCorp = FALSE, !.CorpId = None, !.CompanyName = NoneStr,
            !.AltName = NoneStr]

WithoutOfficers(d) == [d EXCEPT !.hasOfficers = FALSE, !.Officers = << >>]

\* --- membership directories: any relation of at most MaxRecords
\* (company, officer) pairs over the companies MemberCorps and the officers
\* MemberOfficers, one file per company, well-formed fields.
\* Officers 2j-1 and 2j share a normalized name and differ in IdNumber.
MemberCorps == {1, 2, 3}

MemberOfficers == {1, 2, 3, 4, 5}

MemberKey(k) == <<(k + 1) \div 2, 2 - (k % 2)>>

MemberOfficer(k) ==
  Officer(MemberKey(k)[1], MemberKey(k)[2], <<"o", Digit[k], " ">>)

MemberDoc(c, offs) ==
  Doc(c, <<"c", Digit[c]>>, <<"a", Digit[c]>>,
      [i \in DOMAIN offs |-> MemberOfficer(offs[i])])

MemberDir(rel) ==
  LET cs == SortedSeq({p[1] : p \in rel})
  IN [i \in DOMAIN cs |->
        MemberDoc(cs[i], SortedSeq({p[2] : p \in {q \in rel : q[1] = cs[i]}}))]

MembershipDirs ==
  {MemberDir(rel) :
     rel \in {r \in SUBSET (MemberCorps \X MemberOfficers) :
                Cardinality(r) <= MaxRecords}}

\* --- display-name directories: files that repeat a company or an officer
\* with different display fields; one officer entry per file.
NameCorps == {<<1, <<"X">>, <<"x">>>>, <<1, <<"Y">>, <<"y">>>>,
              <<2, <<"Z">>, <<"z">>>>}

NameOfficers == {Officer(1, 1, <<" ", "a">>), Officer(1, 1, <<"b", " ">>),
                 Officer(1, 2, <<" ">>)}

\* The last document is an officer whose FullName is null.
NameDocs ==
  {Doc(c[1], c[2], c[3], <<o>>) : c \in NameCorps, o \in NameOfficers}
    \cup {Doc(1, <<"X">>, <<"x">>, <<Officer(1, 1, NoneStr)>>)}

DisplayNameDirs == SeqsUpTo(NameDocs, MaxNameFiles)

\* --- defective directories: files without Corp or Officers, null CorpId,
\* null identity fields; at most one officer entry per file.
DefectOfficers == {Officer(1, 1, <<"a">>), Officer(1, 2, <<"b">>),
                   Officer(1, None, <<"c">>), Officer(None, None, <<"d">>)}

DefectDocs ==
  LET full == {Doc(c, <<"X">>, <<"x">>, offs) :
                 c \in {None, 1},
                 offs \in {<< >>} \cup {<<o>> : o \in DefectOfficers}}
  IN full \cup {WithoutCorp(d) : d \in full}
          \cup {WithoutOfficers(d) : d \in full}

DefectiveDirs == SeqsUpTo(DefectDocs, MaxDefectFiles)

InputDirs == MembershipDirs \cup DisplayNameDirs \cup DefectiveDirs

\* ------------------------------------------------------------------------
\* State
\* ------------------------------------------------------------------------

VARIABLES
  files,                      \* os.listdir( INPUT_DIR ), as documents
  pc,                         \* the statement the script is about to run
  error,                      \* the exception that ended the run, or "none"
  company_list,
  df,
  officers_by_company,
  companies_by_officer,
  officer_edges,
  corp_edges,
  G_officers,
  G_corps,
  filtered_officers,
  filtered_corps,
  filtered_officer_edges,
  filtered_corporation_edges,
  unique_to_name,
  most_popular_officer,
  corpid_to_company_name,
  corpid_to_alt_name,
  cdf,
  most_popular_company,
  odf

vars == <<files, pc, error, company_list, df, officers_by_company,
          companies_by_officer, officer_edges, corp_edges, G_officers,
          G_corps, filtered_officers, filtered_corps, filtered_officer_edges,
          filtered_corporation_edges, unique_to_name, most_popular_officer,
          corpid_to_company_name, corpid_to_alt_name, cdf,
          most_popular_company, odf>>

\* A dict with no entries.
EmptyDict == [k \in {} |-> None]

\* nx.Graph( )
EmptyGraph == [nodes |-> {}, edges |-> {}]

Init ==
  /\ files \in InputDirs
  /\ pc = "read"
  /\ error = "none"
  /\ company_list = << >>
  /\ df = << >>
  /\ officers_by_company = EmptyDict
  /\ companies_by_officer = EmptyDict
  /\ officer_edges = {}
  /\ corp_edges = {}
  /\ G_officers = EmptyGraph
  /\ G_corps = EmptyGraph
  /\ filtered_officers = {}
  /\ filtered_corps = {}
  /\ filtered_officer_edges = {}
  /\ filtered_corporation_edges = {}
  /\ unique_to_name = EmptyDict
  /\ most_popular_officer = EmptyDict
  /\ corpid_to_company_name = EmptyDict
  /\ corpid_to_alt_name = EmptyDict
  /\ cdf = EmptyDict
  /\ most_popular_company = EmptyDict
  /\ odf = EmptyDict

\* An uncaught exception ends the script; nothing is assigned any more.
Raise(exc) == pc' = "aborted" /\ error' = exc

\* ------------------------------------------------------------------------
\* Record loader (lines 120-169)
\* ------------------------------------------------------------------------

\* json.load of every file of the directory, in listing order.
ReadFiles ==
  /\ pc = "read"
  /\ company_list' = files
  /\ pc' = "frame"
  /\ UNCHANGED <<files, error, df, officers_by_company, companies_by_officer,
                 officer_edges, corp_edges, G_officers, G_corps,
                 filtered_officers, filtered_corps, filtered_officer_edges,
                 filtered_corporation_edges, unique_to_name,
                 most_popular_officer, corpid_to_company_name,
                 corpid_to_alt_name, cdf, most_popular_company, odf>>

\* company.get( 'Corp', dict( ) ).get( key ): None when Corp is missing.
CorpDict(company) ==
  IF company.hasCorp
    THEN [CorpId |-> company.CorpId, CompanyName |-> company.CompanyName,
          AltName |-> company.AltName]
    ELSE [CorpId |-> None, CompanyName |-> NoneStr, AltName |-> NoneStr]

\* company.get( 'Officers', list( ) ): no officers when Officers is missing.
OfficersOf(company) ==
  IF company.hasOfficers THEN company.Officers ELSE << >>

\* { **officer_dict, **corp_dict } plus the OfficerUnique column.
FullDict(officer, corp_dict) ==
  [CorpId |-> corp_dict.CorpId, CompanyName |-> corp_dict.CompanyName,
   AltName |-> corp_dict.AltName,
   FullNameNormalized |-> officer.FullNameNormalized,
   FullName |-> officer.FullName, IdNumber |-> officer.IdNumber,
   OfficerUnique |-> <<officer.FullNameNormalized, officer.IdNumber>>]

\* CompanyRows skipping a company that has no Corp object.
CompanyRowsIfCorp(company) ==
  IF company.hasCorp
    THEN [i \in DOMAIN company.Officers |->
            FullDict(company.Officers[i], CorpDict(company))]
    ELSE << >>

CompanyRows(company) ==
  LET offs == OfficersOf(company)
  IN [i \in DOMAIN offs |-> FullDict(offs[i], CorpDict(company))]

RECURSIVE OfficerDictList(_)
\* One row per officer of every company, in file order.
OfficerDictList(companies) ==
  IF companies = << >> THEN << >>
  ELSE CompanyRows(Head(companies)) \o OfficerDictList(Tail(companies))

BuildFrame ==
  /\ pc = "frame"
  /\ df' = OfficerDictList(company_list)
  /\ pc' = "index"
  /\ UNCHANGED <<files, error, company_list, officers_by_company,
                 companies_by_officer, officer_edges, corp_edges, G_officers,
                 G_corps, filtered_officers, filtered_corps,
                 filtered_officer_edges, filtered_corporation_edges,
                 unique_to_name, most_popular_officer, corpid_to_company_name,
                 corpid_to_alt_name, cdf, most_popular_company, odf>>

\* ------------------------------------------------------------------------
\* Membership index (lines 176-184)
\* ------------------------------------------------------------------------

Rows == Range(df)

\* df.groupby( 'CorpId' ).agg( { 'OfficerUnique' : set } ): rows whose CorpId
\* is null belong to no group.
OfficersByCompany ==
  [c \in {r.CorpId : r \in Rows} \ {None} |->
     {r.OfficerUnique : r \in {x \in Rows : x.CorpId = c}}]

\* df.groupby( 'OfficerUnique' ).agg( { 'CorpId' : set } ): the key is a
\* tuple, never null, and the set keeps a null CorpId.
CompaniesByOfficer ==
  [u \in {r.OfficerUnique : r \in Rows} |->
     {r.CorpId : r \in {x \in Rows : x.OfficerUnique = u}}]

\* An empty frame has no CorpId column to group by.
BuildIndex ==
  /\ pc = "index"
  /\ IF df = << >>
       THEN /\ Raise("KeyError")
            /\ UNCHANGED <<officers_by_company, companies_by_officer>>
       ELSE /\ officers_by_company' = OfficersByCompany
            /\ companies_by_officer' = CompaniesByOfficer
            /\ pc' = "officer_edges"
            /\ UNCHANGED error
  /\ UNCHANGED <<files, company_list, df, officer_edges, corp_edges,
                 G_officers, G_corps, filtered_officers, filtered_corps,
                 filtered_officer_edges, filtered_corporation_edges,
                 unique_to_name, most_popular_officer, corpid_to_company_name,
                 corpid_to_alt_name, cdf, most_popular_company, odf>>

\* ------------------------------------------------------------------------
\* Projection engine (lines 192-268)
\* ------------------------------------------------------------------------

\* a < b on two different key strings: None is not orderable.
StrLess(a, b) ==
  IF a = None \/ b = None THEN "TypeError"
  ELSE IF a < b THEN "lt" ELSE "ge"

\* s < t on two tuples: decided at the first differing position; equal
\* tuples are not less and their items are never ordered.
TupleLess(s, t) ==
  IF s = t THEN "ge"
  ELSE LET i == Min({j \in DOMAIN s : s[j] # t[j]}) IN StrLess(s[i], t[i])

\* m < n on two keys of the given type: a corporation ID is a string, an
\* officer key a tuple of two strings.
Less(type, m, n) ==
  IF type = "corp" THEN StrLess(m, n) ELSE TupleLess(m, n)

\* Tally with the comprehension written as a set, { ... }, instead of a
\* list: every co-occurring node is counted once.
TallyOfSet(n, m, own, opp) ==
  IF \E x \in own[n] : m \in opp[x] THEN 1 ELSE 0

\* The count of m in the Counter of node n: own[n] are the opposite-type
\* neighbours of n and opp[x] the same-type nodes of x. Every opp[x] is a
\* set, so m occurs in the comprehension's list once for each x in own[n]
\* with m in opp[x].
Tally(n, m, own, opp) == Cardinality({x \in own[n] : m \in opp[x]})

\* A lookup opp[x] of a key the dict does not hold.
MissingKeys(n, own, opp) == {x \in own[n] : x \notin DOMAIN opp}

\* DelSelf with the del statement left out.
KeepSelf(n, keys) == keys

\* del c[ n ]: the keys left in the Counter.
DelSelf(n, keys) == keys \ {n}

CounterKeys(n, own, opp) ==
  DelSelf(n, UNION {opp[x] : x \in own[n]})

\* Element without the sorted( ) call.
ElementUnsorted(type, n, m, weight) == <<n, m, weight>>

\* ( *sorted( [ n, m ] ), weight )
Element(type, n, m, weight) ==
  IF Less(type, m, n) = "lt" THEN <<m, n, weight>> ELSE <<n, m, weight>>

\* The exceptions the loop over own.keys( ) can raise.
ProjectionErrors(type, own, opp) ==
  {"KeyError" : n \in {k \in DOMAIN own : MissingKeys(k, own, opp) # {}}}
  \cup
  {"TypeError" :
     n \in {k \in DOMAIN own :
              /\ MissingKeys(k, own, opp) = {}
              /\ \E m \in CounterKeys(k, own, opp) :
                   Less(type, m, k) = "TypeError"}}

\* list( set( edges ) ): the distinct elements appended over all nodes.
ProjectedEdges(type, own, opp) ==
  {Element(type, e[1], e[2], Tally(e[1], e[2], own, opp)) :
     e \in {p \in (DOMAIN own) \X (UNION {opp[x] : x \in DOMAIN opp}) :
              p[2] \in CounterKeys(p[1], own, opp)}}

ProjectOfficers ==
  /\ pc = "officer_edges"
  /\ LET errs == ProjectionErrors("officer", companies_by_officer,
                                  officers_by_company)
     IN IF errs # {}
          THEN /\ \E exc \in errs : Raise(exc)
               /\ UNCHANGED officer_edges
          ELSE /\ officer_edges' =
                    ProjectedEdges("officer", companies_by_officer,
                                   officers_by_company)
               /\ pc' = "corp_edges"
               /\ UNCHANGED error
  /\ UNCHANGED <<files, company_list, df, officers_by_company,
                 companies_by_officer, corp_edges, G_officers, G_corps,
                 filtered_officers, filtered_corps, filtered_officer_edges,
                 filtered_corporation_edges, unique_to_name,
                 most_popular_officer, corpid_to_company_name,
                 corpid_to_alt_name, cdf, most_popular_company, odf>>

ProjectCorps ==
  /\ pc = "corp_edges"
  /\ LET errs == ProjectionErrors("corp", officers_by_company,
                                  companies_by_officer)
     IN IF errs # {}
          THEN /\ \E exc \in errs : Raise(exc)
               /\ UNCHANGED corp_edges
          ELSE /\ corp_edges' =
                    ProjectedEdges("corp", officers_by_company,
                                   companies_by_officer)
               /\ pc' = "G_officers"
               /\ UNCHANGED error
  /\ UNCHANGED <<files, company_list, df, officers_by_company,
                 companies_by_officer, officer_edges, G_officers, G_corps,
                 filtered_officers, filtered_corps, filtered_officer_edges,
                 filtered_corporation_edges, unique_to_name,
                 most_popular_officer, corpid_to_company_name,
                 corpid_to_alt_name, cdf, most_popular_company, odf>>

\* ------------------------------------------------------------------------
\* Component filter (lines 275-336)
\* ------------------------------------------------------------------------

\* The nodes add_edges_from creates.
Nodes(edges) == {e[1] : e \in edges} \cup {e[2] : e \in edges}

Adj(n, edges) ==
  {e[2] : e \in {x \in edges : x[1] = n}} \cup
  {e[1] : e \in {x \in edges : x[2] = n}}

RECURSIVE PlainBfs(_, _)
\* The nodes reachable from the set seen.
PlainBfs(seen, edges) ==
  LET next == seen \cup UNION {Adj(n, edges) : n \in seen}
  IN IF next = seen THEN seen ELSE PlainBfs(next, edges)

\* nx.connected_components( G )
ConnectedComponents(edges) ==
  {PlainBfs({n}, edges) : n \in Nodes(edges)}

\* Largest with min( ) in the place of max( ).
Smallest(comps) ==
  {c \in comps : \A d \in comps : Cardinality(d) >= Cardinality(c)}

\* What max( components, key = len ) can return: the first component of
\* greatest length in the order the components are generated, which follows
\* the order of the edges in list( set( edges ) ), an arbitrary one.
Largest(comps) ==
  {c \in comps : \A d \in comps : Cardinality(d) <= Cardinality(c)}

\* G.subgraph( nodes ).edges( data = True ): each undirected edge once, as
\* the pair of its endpoints (the order in which networkx reports the two
\* endpoints follows node insertion order) and its weight.
SubgraphEdges(nodes, edges) ==
  {[ends |-> {e[1], e[2]}, weight |-> e[3]] :
     e \in {x \in edges : x[1] \in nodes /\ x[2] \in nodes}}

\* _G.subgraph( max( nx.connected_components( _G ), key = len ) ); max( )
\* of an empty sequence raises ValueError.
FilterOfficers ==
  /\ pc = "G_officers"
  /\ LET comps == ConnectedComponents(officer_edges)
     IN IF comps = {}
          THEN /\ Raise("ValueError")
               /\ UNCHANGED G_officers
          ELSE /\ \E c \in Largest(comps) :
                    G_officers' =
                      [nodes |-> c, edges |-> SubgraphEdges(c, officer_edges)]
               /\ pc' = "G_corps"
               /\ UNCHANGED error
  /\ UNCHANGED <<files, company_list, df, officers_by_company,
                 companies_by_officer, officer_edges, corp_edges, G_corps,
                 filtered_officers, filtered_corps, filtered_officer_edges,
                 filtered_corporation_edges, unique_to_name,
                 most_popular_officer, corpid_to_company_name,
                 corpid_to_alt_name, cdf, most_popular_company, odf>>

FilterCorps ==
  /\ pc = "G_corps"
  /\ LET comps == ConnectedComponents(corp_edges)
     IN IF comps = {}
          THEN /\ Raise("ValueError")
               /\ UNCHANGED G_corps
          ELSE /\ \E c \in Largest(comps) :
                    G_corps' =
                      [nodes |-> c, edges |-> SubgraphEdges(c, corp_edges)]
               /\ pc' = "save_edges"
               /\ UNCHANGED error
  /\ UNCHANGED <<files, company_list, df, officers_by_company,
                 companies_by_officer, officer_edges, corp_edges, G_officers,
                 filtered_officers, filtered_corps, filtered_officer_edges,
                 filtered_corporation_edges, unique_to_name,
                 most_popular_officer, corpid_to_company_name,
                 corpid_to_alt_name, cdf, most_popular_company, odf>>

\* The graphs are written, then the node sets and edge lists are taken from
\* them and the edge tables are saved (lines 291-336).
SaveEdges ==
  /\ pc = "save_edges"
  /\ filtered_officers' = G_officers.nodes
  /\ filtered_corps' = G_corps.nodes
  /\ filtered_officer_edges' = G_officers.edges
  /\ filtered_corporation_edges' = G_corps.edges
  /\ pc' = "names"
  /\ UNCHANGED <<files, error, company_list, df, officers_by_company,
                 companies_by_officer, officer_edges, corp_edges, G_officers,
                 G_corps, unique_to_name, most_popular_officer,
                 corpid_to_company_name, corpid_to_alt_name, cdf,
                 most_popular_company, odf>>

\* ------------------------------------------------------------------------
\* Attribute summarizer (lines 54-116 and 342-409)
\* ------------------------------------------------------------------------

RECURSIVE LStrip(_)
LStrip(s) == IF s # << >> /\ Head(s) = " " THEN LStrip(Tail(s)) ELSE s

RECURSIVE RStrip(_)
RStrip(s) ==
  IF s # << >> /\ s[Len(s)] = " " THEN RStrip(SubSeq(s, 1, Len(s) - 1)) ELSE s

\* s.strip( )
Strip(s) == RStrip(LStrip(s))

\* ZipEntry keeping the first pair of a key.
ZipEntryFirst(positions) == Min(positions)

\* The entry of a key that occurs several times in zip( keys, values ):
\* dict( ) assigns the pairs in order, so the last one stays.
ZipEntry(positions) == Max(positions)

\* dict( zip( keys, values ) ) of two columns of the frame.
DictZip(keys, values) ==
  [k \in Range(keys) |->
     values[ZipEntry({i \in DOMAIN keys : keys[i] = k})]]

Column(name) == [i \in DOMAIN df |-> df[i][name]]

\* d.get( key, default )
DictGet(d, key, default) == IF key \in DOMAIN d THEN d[key] ELSE default

\* Before without reverse = True.
BeforeAscending(a, b, pop) == pop[a] <= pop[b]

\* sorted( items, key = popularity, reverse = True ): greater popularity
\* first, equal popularity in the order of the input.
Before(a, b, pop) == pop[a] >= pop[b]

RECURSIVE Insert(_, _, _)
Insert(x, sorted, pop) ==
  IF sorted = << >> THEN <<x>>
  ELSE IF Before(Head(sorted), x, pop)
         THEN <<Head(sorted)>> \o Insert(x, Tail(sorted), pop)
         ELSE <<x>> \o sorted

RECURSIVE Sorted(_, _)
Sorted(items, pop) ==
  IF items = << >> THEN << >>
  ELSE Insert(items[Len(items)],
              Sorted(SubSeq(items, 1, Len(items) - 1), pop), pop)

\* Top3 without the cut.
Uncut(l) == l

\* l[ : min( 3, ll ) ]
Top3(l) == SubSeq(l, 1, IF Len(l) < 3 THEN Len(l) ELSE 3)

\* l.extend( [ None ] * ( 3 - ll ) ), ll the length before the cut.
Extend(l, ll, none) ==
  l \o [i \in 1..(IF ll < 3 THEN 3 - ll ELSE 0) |-> none]

\* get_most_popular_officers / get_most_popular_companies for a node whose
\* opposite-type neighbours are enumerated in the order items: the list l
\* of keys and the names returned.
GetMostPopular(items, opp, lookup, none) ==
  LET pop == [x \in Range(items) |-> Cardinality(opp[x])]
      l == Extend(Top3(Sorted(items, pop)), Len(items), none)
  IN [l |-> l, names |-> [i \in DOMAIN l |-> DictGet(lookup, l[i], << >>)]]

\* The results the function can return for node n: one for every order in
\* which the set own[n] can be enumerated.
MostPopularChoices(n, own, opp, lookup, none) ==
  {GetMostPopular(items, opp, lookup, none) : items \in Perms(own[n])}

RECURSIVE DictsOf(_)
\* The dicts that map every key of choices to one of its choices.
DictsOf(choices) ==
  IF DOMAIN choices = {} THEN {EmptyDict}
  ELSE LET k == CHOOSE x \in DOMAIN choices : TRUE
           rest == DictsOf([x \in DOMAIN choices \ {k} |-> choices[x]])
       IN {(k :> v) @@ d : v \in choices[k], d \in rest}

\* df[ 'FullName' ].apply( lambda s : s.strip( ) ): None has no strip( ).
BuildNames ==
  /\ pc = "names"
  /\ IF \E r \in Rows : r.FullName = NoneStr
       THEN /\ Raise("AttributeError")
            /\ UNCHANGED unique_to_name
       ELSE /\ unique_to_name' =
                 DictZip(Column("OfficerUnique"),
                         [i \in DOMAIN df |-> Strip(df[i].FullName)])
            /\ pc' = "popular_officers"
            /\ UNCHANGED error
  /\ UNCHANGED <<files, company_list, df, officers_by_company,
                 companies_by_officer, officer_edges, corp_edges, G_officers,
                 G_corps, filtered_officers, filtered_corps,
                 filtered_officer_edges, filtered_corporation_edges,
                 most_popular_officer, corpid_to_company_name,
                 corpid_to_alt_name, cdf, most_popular_company, odf>>

\* most_popular_officer_1 .. _3, for corpid in filtered_corps.
RankOfficers ==
  /\ pc = "popular_officers"
  /\ most_popular_officer' \in
       DictsOf([c \in filtered_corps |->
                  MostPopularChoices(c, officers_by_company,
                                     companies_by_officer, unique_to_name,
                                     NoneKey)])
  /\ pc' = "corp_attributes"
  /\ UNCHANGED <<files, error, company_list, df, officers_by_company,
                 companies_by_officer, officer_edges, corp_edges, G_officers,
                 G_corps, filtered_officers, filtered_corps,
                 filtered_officer_edges, filtered_corporation_edges,
                 unique_to_name, corpid_to_company_name, corpid_to_alt_name,
                 cdf, most_popular_company, odf>>

\* corpid_to_company_name, corpid_to_alt_name and the table cdf.
BuildCorpAttributes ==
  /\ pc = "corp_attributes"
  /\ corpid_to_company_name' = DictZip(Column("CorpId"), Column("CompanyName"))
  /\ corpid_to_alt_name' = DictZip(Column("CorpId"), Column("AltName"))
  /\ cdf' = [c \in filtered_corps |->
               [CompanyName |-> corpid_to_company_name'[c],
                AltName |-> corpid_to_alt_name'[c],
                Officer1 |-> most_popular_officer[c].names[1],
                Officer2 |-> most_popular_officer[c].names[2],
                Officer3 |-> most_popular_officer[c].names[3]]]
  /\ pc' = "popular_companies"
  /\ UNCHANGED <<files, error, company_list, df, officers_by_company,
                 companies_by_officer, officer_edges, corp_edges, G_officers,
                 G_corps, filtered_officers, filtered_corps,
                 filtered_officer_edges, filtered_corporation_edges,
                 unique_to_name, most_popular_officer, most_popular_company,
                 odf>>

\* most_popular_company_1 .. _3, for unique in companies_by_officer.keys( ).
RankCompanies ==
  /\ pc = "popular_companies"
  /\ most_popular_company' \in
       DictsOf([u \in DOMAIN companies_by_officer |->
                  MostPopularChoices(u, companies_by_officer,
                                     officers_by_company,
                                     corpid_to_company_name, None)])
  /\ pc' = "officer_attributes"
  /\ UNCHANGED <<files, error, company_list, df, officers_by_company,
                 companies_by_officer, officer_edges, corp_edges, G_officers,
                 G_corps, filtered_officers, filtered_corps,
                 filtered_officer_edges, filtered_corporation_edges,
                 unique_to_name, most_popular_officer, corpid_to_company_name,
                 corpid_to_alt_name, cdf, odf>>

\* unique_to_id and the table odf; the script ends.
BuildOfficerAttributes ==
  /\ pc = "officer_attributes"
  /\ odf' = [u \in filtered_officers |->
               [FullName |-> unique_to_name[u],
                IdNumber |-> DictZip(Column("OfficerUnique"),
                                     Column("IdNumber"))[u],
                Company1 |-> most_popular_company[u].names[1],
                Company2 |-> most_popular_company[u].names[2],
                Company3 |-> most_popular_company[u].names[3]]]
  /\ pc' = "done"
  /\ UNCHANGED <<files, error, company_list, df, officers_by_company,
                 companies_by_officer, officer_edges, corp_edges, G_officers,
                 G_corps, filtered_officers, filtered_corps,
                 filtered_officer_edges, filtered_corporation_edges,
                 unique_to_name, most_popular_officer, corpid_to_company_name,
                 corpid_to_alt_name, cdf, most_popular_company>>

Next ==
  \/ ReadFiles
  \/ BuildFrame
  \/ BuildIndex
  \/ ProjectOfficers
  \/ ProjectCorps
  \/ FilterOfficers
  \/ FilterCorps
  \/ SaveEdges
  \/ BuildNames
  \/ RankOfficers
  \/ BuildCorpAttributes
  \/ RankCompanies
  \/ BuildOfficerAttributes

Spec == Init /\ [][Next]_vars

\* ------------------------------------------------------------------------
\* Properties
\* ------------------------------------------------------------------------

PcOrder == <<"read", "frame", "index", "officer_edges", "corp_edges",
             "G_officers", "G_corps", "save_edges", "names",
             "popular_officers", "corp_attributes", "popular_companies",
             "officer_attributes", "done">>

PcIndex(label) == CHOOSE i \in DOMAIN PcOrder : PcOrder[i] = label

\* The script has run the statement at label and has not been aborted.
Past(label) == pc # "aborted" /\ PcIndex(pc) > PcIndex(label)

\* Some edge of a projection joins a and b.
Joined(edges, a, b) == \E e \in edges : {e[1], e[2]} = {a, b}

\* Edges exist exactly between distinct nodes with a common opposite-type
\* neighbour, and weigh the number of common neighbours.
IntersectionWeights(edges, own) ==
  /\ \A e \in edges :
       /\ e[1] \in DOMAIN own /\ e[2] \in DOMAIN own
       /\ e[1] # e[2]
       /\ e[3] = Cardinality(own[e[1]] \cap own[e[2]])
       /\ e[3] > 0
  /\ \A a \in DOMAIN own : \A b \in DOMAIN own \ {a} :
       (own[a] \cap own[b] # {}) => Joined(edges, a, b)

\* C1: after projection and deduplication, in the officer graph and in the
\* company graph, two distinct nodes are joined by an edge if and only if
\* they share an opposite-type node, and the edge's weight is the size of the
\* intersection of their opposite-type neighbour sets.
C1_WeightIsIntersectionSize ==
  /\ Past("officer_edges") =>
       IntersectionWeights(officer_edges, companies_by_officer)
  /\ Past("corp_edges") =>
       IntersectionWeights(corp_edges, officers_by_company)

\* Both projections done, with an officer pair sharing two companies, an
\* officer pair sharing one (one of them serving two), and a company pair
\* sharing two officers.
C1_Witness ==
  /\ Past("corp_edges")
  /\ \E e \in officer_edges : e[3] = 2
  /\ \E e \in officer_edges :
       /\ e[3] = 1
       /\ Cardinality(companies_by_officer[e[1]]) *
            Cardinality(companies_by_officer[e[2]]) = 2
  /\ \E e \in corp_edges : e[3] = 2

\* a < b in the order of officer keys (tuples, lexicographic).
OfficerKeyBefore(a, b) == a[1] < b[1] \/ (a[1] = b[1] /\ a[2] < b[2])

\* C2: every projected edge (node_a, node_b, weight) of the officer graph and
\* of the company graph has node_a < node_b strictly; there is no self-loop.
C2_EndpointsStrictlyOrdered ==
  /\ \A e \in officer_edges : OfficerKeyBefore(e[1], e[2])
  /\ \A e \in corp_edges : e[1] < e[2]

\* Both projections done; one officer edge is ordered by the normalized
\* name, another by the ID number alone.
C2_Witness ==
  /\ Past("corp_edges")
  /\ corp_edges # {}
  /\ \E e \in officer_edges : e[1][1] < e[2][1]
  /\ \E e \in officer_edges : e[1][1] = e[2][1]

\* No two different stored edges join the same pair of nodes.
OneEdgePerPair(edges) ==
  \A e \in edges : \A f \in edges :
    {e[1], e[2]} = {f[1], f[2]} => e = f

\* C3: after deduplication every unordered pair of same-type nodes appears in
\* at most one projected edge, in both graphs.
C3_OneEdgePerPair ==
  /\ OneEdgePerPair(officer_edges)
  /\ OneEdgePerPair(corp_edges)

\* Both projections done with edges in both graphs, each edge having been
\* generated from both of its endpoints; one pair shares two neighbours.
C3_Witness ==
  /\ Past("corp_edges")
  /\ Cardinality(officer_edges) >= 2
  /\ Cardinality(corp_edges) >= 2
  /\ \E e \in officer_edges : e[3] >= 2

\* S is closed under adjacency: no edge leaves it.
Closed(S, edges) == \A e \in edges : (e[1] \in S) <=> (e[2] \in S)

\* S is a connected component: non-empty, closed, and no smaller non-empty
\* part of it is closed.
IsComponent(S, edges) ==
  /\ S # {}
  /\ S \subseteq Nodes(edges)
  /\ Closed(S, edges)
  /\ \A T \in SUBSET S : (T # {} /\ T # S) => ~Closed(T, edges)

IsLargestComponent(S, edges) ==
  /\ IsComponent(S, edges)
  /\ \A T \in SUBSET Nodes(edges) :
       Cardinality(T) > Cardinality(S) => ~IsComponent(T, edges)

\* kept holds exactly the edges with both endpoints in S, weights unchanged.
IsInducedBy(kept, S, edges) ==
  /\ \A e \in edges :
       ({e[1], e[2]} \subseteq S) <=>
         ([ends |-> {e[1], e[2]}, weight |-> e[3]] \in kept)
  /\ \A f \in kept :
       \E e \in edges : f.ends = {e[1], e[2]} /\ f.weight = e[3]

\* C4: for a non-empty projected graph the component filter keeps a connected
\* component of greatest node count and exactly the projected edges, weights
\* unchanged, with both endpoints in it; the saved edge lists and the node
\* sets of the attribute tables are those of that induced subgraph.
C4_LargestComponentInduced ==
  /\ Past("G_officers") =>
       /\ IsLargestComponent(G_officers.nodes, officer_edges)
       /\ IsInducedBy(G_officers.edges, G_officers.nodes, officer_edges)
  /\ Past("G_corps") =>
       /\ IsLargestComponent(G_corps.nodes, corp_edges)
       /\ IsInducedBy(G_corps.edges, G_corps.nodes, corp_edges)
  /\ Past("save_edges") =>
       /\ filtered_officers = G_officers.nodes
       /\ filtered_officer_edges = G_officers.edges
       /\ filtered_corps = G_corps.nodes
       /\ filtered_corporation_edges = G_corps.edges
  /\ Past("corp_attributes") => DOMAIN cdf = filtered_corps
  /\ pc = "done" => DOMAIN odf = filtered_officers

\* A finished run whose officer graph has a component of 3 nodes and a
\* smaller one: the 3 nodes are kept and an edge of the other is dropped.
C4_Witness ==
  /\ pc = "done"
  /\ Cardinality(filtered_officers) = 3
  /\ Nodes(officer_edges) \ filtered_officers # {}
  /\ Cardinality(filtered_officer_edges) < Cardinality(officer_edges)
  /\ \E f \in filtered_officer_edges : f.weight >= 1

\* C5: when a projected graph is empty the component filter returns an empty
\* graph and the run goes on; the empty case does not abort the run.
C5_EmptyGraphDoesNotAbort ==
  (officer_edges = {} \/ corp_edges = {}) =>
    ~(pc = "aborted" /\ error = "ValueError")

\* The popularity of an officer and of a company, counted over the whole
\* membership index through the opposite dict.
OfficerPopularity ==
  [u \in DOMAIN companies_by_officer |->
     Cardinality({c \in DOMAIN officers_by_company :
                    u \in officers_by_company[c]})]

CompanyPopularity ==
  [c \in DOMAIN officers_by_company |->
     Cardinality({u \in DOMAIN companies_by_officer :
                    c \in companies_by_officer[u]})]

\* The keys of l that are not padding.
Included(l, none) == {i \in DOMAIN l : l[i] # none}

\* l holds the neighbours nbrs of greatest popularity, at most 3 and all of
\* them if fewer, in non-increasing order of popularity.
IsRanking(l, none, nbrs, pop) ==
  /\ \A i \in Included(l, none) : l[i] \in nbrs
  /\ \A i \in Included(l, none) : \A j \in Included(l, none) :
       i < j => (l[i] # l[j] /\ pop[l[i]] >= pop[l[j]])
  /\ Cardinality(Included(l, none)) =
       (IF Cardinality(nbrs) < 3 THEN Cardinality(nbrs) ELSE 3)
  /\ \A x \in nbrs \ {l[i] : i \in Included(l, none)} :
       \A i \in Included(l, none) : pop[x] <= pop[l[i]]

\* C6: the ranked affiliations of a node are its opposite-type neighbours in
\* the unfiltered membership index, by descending popularity counted over the
\* unfiltered index: no neighbour left out is more popular than one included
\* and the included ones are in non-increasing order.
C6_RankedByPopularity ==
  /\ \A c \in DOMAIN most_popular_officer :
       IsRanking(most_popular_officer[c].l, NoneKey, officers_by_company[c],
                 OfficerPopularity)
  /\ \A u \in DOMAIN most_popular_company :
       IsRanking(most_popular_company[u].l, None, companies_by_officer[u],
                 CompanyPopularity)

\* A finished run with a retained company of more than 3 officers whose
\* first-ranked officer is more popular than its third, and an officer
\* ranked over companies of different popularity.
C6_Witness ==
  /\ pc = "done"
  /\ \E c \in DOMAIN most_popular_officer :
       /\ Cardinality(officers_by_company[c]) > 3
       /\ OfficerPopularity[most_popular_officer[c].l[1]] >
            OfficerPopularity[most_popular_officer[c].l[3]]
  /\ \E u \in DOMAIN odf :
       /\ most_popular_company[u].l[2] # None
       /\ CompanyPopularity[most_popular_company[u].l[1]] >
            CompanyPopularity[most_popular_company[u].l[2]]

\* The display names the records give an officer / a company.
OfficerDisplayNames(u) ==
  {Strip(r.FullName) : r \in {x \in Rows : x.OfficerUnique = u}}

CompanyDisplayNames(c) ==
  {r.CompanyName : r \in {x \in Rows : x.CorpId = c}}

\* names has 3 fields: the first min(k, 3) hold a display name of one of the
\* k affiliations, the others hold the empty string.
IsPadded(names, k, display) ==
  /\ Len(names) = 3
  /\ \A i \in 1..3 :
       IF i <= k THEN names[i] \in display /\ names[i] # << >>
                 ELSE names[i] = << >>

\* C7: every node gets exactly 3 ranked-affiliation fields; with k
\* affiliations, all with non-empty display names, min(k, 3) fields hold
\* display names of its affiliations and the others hold the empty string.
C7_ThreeFieldsPadded ==
  /\ \A c \in DOMAIN most_popular_officer :
       /\ Len(most_popular_officer[c].names) = 3
       /\ (\A u \in officers_by_company[c] :
             << >> \notin OfficerDisplayNames(u)) =>
            IsPadded(most_popular_officer[c].names,
                     Cardinality(officers_by_company[c]),
                     UNION {OfficerDisplayNames(u) :
                              u \in officers_by_company[c]})
  /\ \A u \in DOMAIN most_popular_company :
       /\ Len(most_popular_company[u].names) = 3
       /\ (\A c \in companies_by_officer[u] :
             CompanyDisplayNames(c) \cap {<< >>, NoneStr} = {}) =>
            IsPadded(most_popular_company[u].names,
                     Cardinality(companies_by_officer[u]),
                     UNION {CompanyDisplayNames(c) :
                              c \in companies_by_officer[u]})

\* A finished run with a retained company of one officer (1 name, 2 empty
\* fields) and a retained company of more than 3 officers (3 names).
C7_Witness ==
  /\ pc = "done"
  /\ \E c \in DOMAIN cdf :
       /\ Cardinality(officers_by_company[c]) = 1
       /\ cdf[c].Officer1 # << >>
       /\ cdf[c].Officer2 = << >> /\ cdf[c].Officer3 = << >>
  /\ \E c \in DOMAIN cdf :
       /\ Cardinality(officers_by_company[c]) > 3
       /\ cdf[c].Officer3 # << >>
  /\ \E u \in DOMAIN odf : odf[u].Company2 # << >> /\ odf[u].Company3 = << >>

\* The rows of the frame that carry the key k in the column col.
RowsWith(col, k) == {i \in DOMAIN df : df[i][col] = k}

\* C8 as stated: on duplicate keys the lookup tables hold the value of the
\* first record in record order.
C8_FirstRecordWins ==
  /\ \A u \in DOMAIN unique_to_name :
       unique_to_name[u] = Strip(df[Min(RowsWith("OfficerUnique", u))].FullName)
  /\ \A c \in DOMAIN corpid_to_company_name :
       corpid_to_company_name[c] = df[Min(RowsWith("CorpId", c))].CompanyName
  /\ \A c \in DOMAIN corpid_to_alt_name :
       corpid_to_alt_name[c] = df[Min(RowsWith("CorpId", c))].AltName

\* No later row of the frame carries the key of row i in the column col.
IsLastWith(col, i) == \A j \in DOMAIN df : df[j][col] = df[i][col] => j <= i

\* C8 amended: on duplicate keys the lookup tables hold the value of the last
\* record in record order (the full name with surrounding whitespace
\* trimmed), and they have an entry for every key of the frame.
C8_LastRecordWins ==
  /\ Past("names") =>
       \A i \in DOMAIN df :
         /\ df[i].OfficerUnique \in DOMAIN unique_to_name
         /\ IsLastWith("OfficerUnique", i) =>
              unique_to_name[df[i].OfficerUnique] = Strip(df[i].FullName)
  /\ Past("corp_attributes") =>
       \A i \in DOMAIN df :
         /\ df[i].CorpId \in DOMAIN corpid_to_company_name
         /\ df[i].CorpId \in DOMAIN corpid_to_alt_name
         /\ IsLastWith("CorpId", i) =>
              /\ corpid_to_company_name[df[i].CorpId] = df[i].CompanyName
              /\ corpid_to_alt_name[df[i].CorpId] = df[i].AltName

\* The tables are built from a frame in which a company occurs twice with
\* different names and an officer twice with different full names, one of
\* them with surrounding whitespace.
C8_Witness ==
  /\ Past("corp_attributes")
  /\ \E i \in DOMAIN df : \E j \in DOMAIN df :
       /\ i < j
       /\ df[i].CorpId = df[j].CorpId
       /\ df[i].CompanyName # df[j].CompanyName
       /\ df[i].AltName # df[j].AltName
  /\ \E i \in DOMAIN df : \E j \in DOMAIN df :
       /\ i < j
       /\ df[i].OfficerUnique = df[j].OfficerUnique
       /\ Strip(df[i].FullName) # Strip(df[j].FullName)
       /\ Strip(df[j].FullName) # df[j].FullName

\* A record with a null corp_id or a null identity key.
IsNullRecord(r) == r.CorpId = None \/ r.OfficerUnique = <<None, None>>

\* Every document of the directory has its Corp and Officers keys.
AllDocsComplete ==
  \A k \in DOMAIN files : files[k].hasCorp /\ files[k].hasOfficers

\* C9: a record with a null corp_id or a null identity key is skipped: it
\* puts no entry into the membership index and the run is not aborted by
\* it. (Stated for directories whose documents have both top-level keys.)
C9_NullRecordsSkipped ==
  AllDocsComplete =>
    /\ \A u \in DOMAIN companies_by_officer :
         u # <<None, None>> /\ None \notin companies_by_officer[u]
    /\ (\E i \in DOMAIN df : IsNullRecord(df[i])) =>
         ~(pc = "aborted" /\ error \in {"KeyError", "TypeError"})

\* Some document of the directory lacks Corp or Officers.
SomeDocLacksKey ==
  \E k \in DOMAIN files : ~files[k].hasCorp \/ ~files[k].hasOfficers

\* C10 as stated: when a document lacks Corp or Officers the whole run fails
\* and no record of any file is turned into a graph or a table.
C10_MissingKeyFailsRun ==
  SomeDocLacksKey =>
    /\ officer_edges = {} /\ corp_edges = {}
    /\ pc # "done"

\* The officer entries a document contributes: none without Officers.
Entries(d) == IF d.hasOfficers THEN d.Officers ELSE << >>

RECURSIVE EntriesBefore(_)
\* The number of officer entries in the documents before the k-th.
EntriesBefore(k) ==
  IF k = 1 THEN 0 ELSE EntriesBefore(k - 1) + Len(Entries(files[k - 1]))

\* C10 amended: the loader does not fail on a document that lacks Corp or
\* Officers. A document without Officers yields no record, a document
\* without Corp yields its officers' records with null company fields, and
\* every document's records are loaded: the frame holds, in file order, one
\* record for each officer entry of each document and nothing else.
C10_MissingKeysDefaulted ==
  Past("frame") =>
    /\ Len(df) = EntriesBefore(Len(files) + 1)
    /\ \A k \in DOMAIN files : \A j \in DOMAIN Entries(files[k]) :
         LET r == df[EntriesBefore(k) + j]
             o == Entries(files[k])[j]
         IN /\ r.OfficerUnique = <<o.FullNameNormalized, o.IdNumber>>
            /\ r.FullName = o.FullName
            /\ r.CorpId = (IF files[k].hasCorp THEN files[k].CorpId ELSE None)
            /\ r.CompanyName =
                 (IF files[k].hasCorp THEN files[k].CompanyName ELSE NoneStr)
            /\ r.AltName =
                 (IF files[k].hasCorp THEN files[k].AltName ELSE NoneStr)

\* A directory with a document without Officers, a document without Corp
\* that lists an officer, and a well-formed document: all records are in
\* the frame and the index has been built from them.
C10_Witness ==
  /\ Past("index")
  /\ \E k \in DOMAIN files : ~files[k].hasOfficers
  /\ \E k \in DOMAIN files : ~files[k].hasCorp /\ Entries(files[k]) # << >>
  /\ \E k \in DOMAIN files : files[k].hasCorp /\ files[k].CorpId # None
                             /\ Entries(files[k]) # << >>
  /\ Len(df) = 2

\* ------------------------------------------------------------------------

\* The officer filter, run in this state, can retain the node set c.
OfficerFilterCanKeep(c) == ENABLED (FilterOfficers /\ G_officers'.nodes = c)

\* The company filter, run in this state, can retain the node set c.
CorpFilterCanKeep(c) == ENABLED (FilterCorps /\ G_corps'.nodes = c)

\* C11: the component filter is a function of the edge set. Whatever the
\* order in which the deduplicated edges are enumerated, the filter retains
\* the same component, also when several components tie for the greatest
\* node count: a state about to filter has one possible retained node set.
C11_FilterDeterministic ==
  /\ pc = "G_officers" =>
       \A c \in SUBSET Nodes(officer_edges) :
         OfficerFilterCanKeep(c) =>
           \A d \in SUBSET Nodes(officer_edges) :
             OfficerFilterCanKeep(d) => d = c
  /\ pc = "G_corps" =>
       \A c \in SUBSET Nodes(corp_edges) :
         CorpFilterCanKeep(c) =>
           \A d \in SUBSET Nodes(corp_edges) :
             CorpFilterCanKeep(d) => d = c

\* The triples of ranked-affiliation fields over the display names names.
Fields(names) == [1..3 -> names \cup {<< >>}]

\* The officer ranking, run in this state, can give company c the fields f.
OfficerRankingCanGive(c, f) ==
  ENABLED (RankOfficers /\ most_popular_officer'[c].names = f)

\* The company ranking, run in this state, can give officer u the fields f.
CompanyRankingCanGive(u, f) ==
  ENABLED (RankCompanies /\ most_popular_company'[u].names = f)

\* C12: the three ranked-affiliation fields of a node are a function of the
\* membership index. Neighbours of equal popularity are chosen and ordered
\* by a fixed tie-break, whatever the iteration order of the membership
\* sets: a state about to rank has one possible triple for every node.
C12_RankingDeterministic ==
  /\ pc = "popular_officers" =>
       \A c \in filtered_corps :
         \A f \in Fields(Range(unique_to_name)) :
           OfficerRankingCanGive(c, f) =>
             \A g \in Fields(Range(unique_to_name)) :
               OfficerRankingCanGive(c, g) => g = f
  /\ pc = "popular_companies" =>
       \A u \in DOMAIN companies_by_officer :
         \A f \in Fields(Range(corpid_to_company_name)) :
           CompanyRankingCanGive(u, f) =>
             \A g \in Fields(Range(corpid_to_company_name)) :
               CompanyRankingCanGive(u, g) => g = f

\* Every member of a set of the dict own is a key of the dict opp, and
\* opp lists the key back.
ListedBack(own, opp) ==
  \A n \in DOMAIN own : \A x \in own[n] :
    x \in DOMAIN opp /\ n \in opp[x]

\* C13: the two dicts of the membership index are inverse relations for any
\* set of records: c is in companies_by_officer[o] if and only if o is in
\* officers_by_company[c], every member of a set is a key of the other
\* dict, and so the projection loops never look up a missing key. (Stated
\* for directories whose documents have both top-level keys.)
C13_IndexInverse ==
  AllDocsComplete =>
    /\ ListedBack(companies_by_officer, officers_by_company)
    /\ ListedBack(officers_by_company, companies_by_officer)
    /\ ~(pc = "aborted" /\ error = "KeyError" /\ df # << >>)

====
